---- MODULE Spec2Model ----
(***************************************************************************)
(* A model of the Schwab trading automation (src/schwab-proj):             *)
(* order_manager.py (indicators, adaptive exit price, order reconciliation,*)
(* the per-symbol loop of TradingManager.run, main), the parts of          *)
(* config.py that decide which configurations are accepted, and            *)
(* order_export.py (the incremental order export and its upload).          *)
(*                                                                         *)
(* Numbers.  Python floats are modelled as exact rationals <<n, d>> with   *)
(* d > 0 in lowest terms; binary rounding error is not modelled.  Python's *)
(* None is the empty tuple.                                                *)
(***************************************************************************)
EXTENDS Integers, Sequences, FiniteSets, TLC

VARIABLES
    config,         \* the TradingConfig in use
    market_data,    \* SpecExit: the MarketData argument
    current_price,  \* SpecExit: the current_price argument (None or a rational)
    avg_cost,       \* SpecExit: the avg_cost argument (None or a rational)
    exit_result,    \* SpecExit: what calculate_exit_price did
    env,            \* the process environment main() starts in
    broker_positions, \* the account's positions at the broker
    broker_orders,  \* the account's orders at the broker (raw, any remainingQuantity)
    pc,             \* where main() is: "main", "run", "loop", "returned", "exited"
    positions,      \* run(): the positions snapshot
    open_orders,    \* run(): the open-orders snapshot
    fetch_failed,   \* run(): which of the two snapshot fetches raised
    idx,            \* run(): how many tickers the loop has handled
    success_count,  \* run(): success_count
    results,        \* what process_symbol did for each ticker handled, in order
    calls,          \* the place_order / replace_order calls the broker received
    history_calls,  \* the symbols whose price history was requested, in order
    run_result,     \* None until run() returns, then <<TRUE>> or <<FALSE>>
    exit_code,      \* None while main() runs, then <<0>> or <<1>>
    ind_series,     \* SpecIndicators: the MarketData an indicator is called on
    ind_input,      \* SpecIndicators: that MarketData as it was before the call
    ind_period,     \* SpecIndicators: the period argument
    ind_multiplier, \* SpecIndicators: the multiplier argument of chandelier_exit
    ind_result,     \* SpecIndicators: which indicator was called, and what it did
    now,            \* SpecExport: the clock, what datetime.now(timezone.utc) returns
    account_orders, \* SpecExport: the orders of the account, in the order entered
    last_execution, \* SpecExport: last_execution.json: None, or <<the saved date>>
    output_file,    \* SpecExport: the CSV file: None, or <<its data rows>>
    uploads,        \* SpecExport: the files uploaded to Databricks, in order
    job_runs,       \* SpecExport: how many times the Databricks job was triggered
    export_pending, \* SpecExport: None, or <<the order query a run is waiting on>>
    export_runs     \* SpecExport: what each OrderExportManager.run did, in order

exit_vars == <<market_data, current_price, avg_cost, exit_result>>

run_vars == <<env, broker_positions, broker_orders, pc, positions, open_orders,
              fetch_failed, idx, success_count, results, calls, history_calls,
              run_result, exit_code>>

ind_vars == <<ind_series, ind_input, ind_period, ind_multiplier, ind_result>>

export_vars == <<now, account_orders, last_execution, output_file, uploads,
                 job_runs, export_pending, export_runs>>

vars == <<config, exit_vars, run_vars, ind_vars, export_vars>>

None == <<>>

-----------------------------------------------------------------------------
(* Rational arithmetic standing for Python's float operators.              *)

Abs(x) == IF x < 0 THEN -x ELSE x

Gcd[a \in Nat, b \in Nat] == IF b = 0 THEN a ELSE Gcd[b, a % b]

\* n / d with divisor g taken out, the denominator made positive
Reduce(n, d, g) ==
    IF d < 0 THEN <<(-n) \div g, (-d) \div g>> ELSE <<n \div g, d \div g>>

Norm(n, d) == Reduce(n, d, Gcd[Abs(n), Abs(d)])

R(x) == <<x, 1>>

RAdd(a, b) == Norm(a[1] * b[2] + b[1] * a[2], a[2] * b[2])

RSub(a, b) == Norm(a[1] * b[2] - b[1] * a[2], a[2] * b[2])

RMul(a, b) == Norm(a[1] * b[1], a[2] * b[2])

\* a / b for b # 0 (Python raises ZeroDivisionError for b = 0; callers test it)
RDiv(a, b) == Norm(a[1] * b[2], a[2] * b[1])

RLt(a, b) == a[1] * b[2] < b[1] * a[2]

RLe(a, b) == a[1] * b[2] <= b[1] * a[2]

RAbs(a) == <<Abs(a[1]), a[2]>>

\* Python's min(a, b) and max(a, b): the first argument wins a tie
RMin(a, b) == IF RLt(b, a) THEN b ELSE a

RMax(a, b) == IF RLt(a, b) THEN b ELSE a

-----------------------------------------------------------------------------
(* Python sequences.                                                       *)

\* seq[start:] for any integer start (negative counts from the end, and is
\* clipped at the beginning; 0 is the whole list)
PySliceFrom(seq, start) ==
    LET n == Len(seq)
        s == IF start < 0 THEN (IF n + start < 0 THEN 0 ELSE n + start)
             ELSE (IF start > n THEN n ELSE start)
    IN  SubSeq(seq, s + 1, n)

\* seq[-k] for 1 <= k <= Len(seq)
PyFromEnd(seq, k) == seq[Len(seq) - k + 1]

\* sum(seq) of a list of rationals
RSum(seq) ==
    LET partial[i \in 0..Len(seq)] ==
            IF i = 0 THEN R(0) ELSE RAdd(partial[i - 1], seq[i])
    IN  partial[Len(seq)]

\* max(seq) of a non-empty list of integers
IntMax(seq) ==
    CHOOSE m \in {seq[i] : i \in 1..Len(seq)} : \A j \in 1..Len(seq) : seq[j] <= m

-----------------------------------------------------------------------------
(* What a call did: returned a value, or raised.                           *)

Returned(v) == [ok |-> TRUE, val |-> v, err |-> "none"]

Raised(e) == [ok |-> FALSE, val |-> None, err |-> e]

-----------------------------------------------------------------------------
(* MarketData and TechnicalIndicators.                                     *)

\* MarketData(symbol, highs, lows, closes) built from the candles of a price
\* history, as get_market_data builds it (the three lists have one length)
MarketData(symbol, candles) ==
    [symbol |-> symbol,
     highs  |-> [i \in 1..Len(candles) |-> candles[i].high],
     lows   |-> [i \in 1..Len(candles) |-> candles[i].low],
     closes |-> [i \in 1..Len(candles) |-> candles[i].close]]

\* a list of integer prices as floats
AsFloats(prices) == [i \in 1..Len(prices) |-> R(prices[i])]

simple_moving_average(prices, period) ==
    IF Len(prices) < period THEN Raised("ValueError")
    ELSE Returned(RDiv(RSum(AsFloats(PySliceFrom(prices, -period))), R(period)))

\* the loop of exponential_moving_average over `window`, from `seed`
ema_fold(window, alpha, seed) ==
    LET ema[i \in 0..Len(window)] ==
            IF i = 0 THEN seed
            ELSE RAdd(RMul(alpha, R(window[i])), RMul(RSub(R(1), alpha), ema[i - 1]))
    IN  ema[Len(window)]

\* prices[-period+1:], the prices the loop of exponential_moving_average
\* runs over (for period = 1 the slice starts at 0: the whole list)
ema_window(prices, period) == PySliceFrom(prices, 1 - period)

exponential_moving_average(prices, period) ==
    IF Len(prices) < period THEN Raised("ValueError")
    ELSE LET alpha == Norm(2, period + 1)
             seed  == R(PyFromEnd(prices, period))
         IN  Returned(ema_fold(ema_window(prices, period), alpha, seed))

\* the true range of bar i (2 <= i <= Len(closes)), an integer here
true_range(md, i) ==
    LET a == md.highs[i] - md.lows[i]
        b == Abs(md.highs[i] - md.closes[i - 1])
        c == Abs(md.lows[i] - md.closes[i - 1])
        ab == IF b > a THEN b ELSE a
    IN  IF c > ab THEN c ELSE ab

\* a variant of average_true_range that asks for `period` bars only
average_true_range_no_prev(md, period) ==
    IF Len(md.closes) < period THEN Raised("ValueError")
    ELSE LET true_ranges == [k \in 1..(Len(md.closes) - 1) |-> R(true_range(md, k + 1))]
         IN  Returned(RDiv(RSum(PySliceFrom(true_ranges, -period)), R(period)))

\* a variant of average_true_range that sums every true range of the series
average_true_range_all(md, period) ==
    IF Len(md.closes) < period + 1 THEN Raised("ValueError")
    ELSE LET true_ranges == [k \in 1..(Len(md.closes) - 1) |-> R(true_range(md, k + 1))]
         IN  Returned(RDiv(RSum(true_ranges), R(period)))

average_true_range(md, period) ==
    IF Len(md.closes) < period + 1 THEN Raised("ValueError")
    ELSE LET true_ranges == [k \in 1..(Len(md.closes) - 1) |-> R(true_range(md, k + 1))]
         IN  Returned(RDiv(RSum(PySliceFrom(true_ranges, -period)), R(period)))

\* the ATR period chandelier_exit passes to average_true_range
ChandelierATRPeriod == 10

\* a variant of chandelier_from_atr that adds the ATR term
chandelier_from_atr_plus(highest_high, multiplier, atr) ==
    IF ~atr.ok THEN atr
    ELSE Returned(RAdd(R(highest_high), RMul(multiplier, atr.val)))

\* the last line of chandelier_exit, given what average_true_range did
chandelier_from_atr(highest_high, multiplier, atr) ==
    IF ~atr.ok THEN atr
    ELSE Returned(RSub(R(highest_high), RMul(multiplier, atr.val)))

\* a variant of chandelier_exit whose ATR has the period of the highs
chandelier_exit_outer_atr(md, period, multiplier) ==
    IF Len(md.highs) < period THEN Raised("ValueError")
    ELSE chandelier_from_atr(IntMax(PySliceFrom(md.highs, -period)), multiplier,
                             average_true_range(md, period))

chandelier_exit(md, period, multiplier) ==
    IF Len(md.highs) < period THEN Raised("ValueError")
    ELSE chandelier_from_atr(IntMax(PySliceFrom(md.highs, -period)), multiplier,
                             average_true_range(md, ChandelierATRPeriod))

-----------------------------------------------------------------------------
(* TradingManager.calculate_exit_price.                                    *)

ExitReturned(exit_price, ema, chandelier, strategy) ==
    [ok |-> TRUE, err |-> "none", exit_price |-> exit_price, ema |-> ema,
     chandelier |-> chandelier, strategy |-> strategy]

ExitRaised(e) ==
    [ok |-> FALSE, err |-> e, exit_price |-> None, ema |-> None,
     chandelier |-> None, strategy |-> "none"]

unrealized_pnl_pct(cur, cost) == RDiv(RSub(cur, cost), cost)

is_winner(cfg, pnl) == RLe(cfg.profit_threshold, pnl)

\* mutation of is_loser: the loss bound open instead of closed
is_loser_strict(cfg, pnl) == RLt(pnl, cfg.loss_threshold)

is_loser(cfg, pnl) == RLe(pnl, cfg.loss_threshold)

\* mutation of winner_stop: the looser of the two stops
winner_stop_max(ema, chandelier) == RMax(ema, chandelier)

winner_stop(ema, chandelier) == RMin(ema, chandelier)

loss_stop(cfg, ema, chandelier, cost) ==
    LET tight_stop == RMul(cost, RSub(R(1), cfg.max_loss_percent))
        conservative_stop == RMin(ema, chandelier)
    IN  RMax(conservative_stop, tight_stop)

conservative_stop_price(ema, chandelier) == RMax(ema, chandelier)

\* the strategy selection of calculate_exit_price, given the indicators
select_exit(cfg, cur, cost, e, c) ==
    IF cost # None
    THEN IF cost[1] = 0 THEN ExitRaised("ZeroDivisionError")
         ELSE IF is_winner(cfg, unrealized_pnl_pct(cur, cost))
         THEN ExitReturned(winner_stop(e, c), e, c, "WINNER_TRAILING")
         ELSE IF is_loser(cfg, unrealized_pnl_pct(cur, cost))
         THEN ExitReturned(loss_stop(cfg, e, c, cost), e, c, "LOSS_CUTTING")
         ELSE ExitReturned(conservative_stop_price(e, c), e, c,
                           "BREAKEVEN_CONSERVATIVE")
    ELSE ExitReturned(conservative_stop_price(e, c), e, c, "DEFAULT_CONSERVATIVE")

\* calculate_exit_price once both indicator calls are done
exit_from_indicators(cfg, md, cur_arg, cost, ema, chandelier) ==
    IF ~ema.ok THEN ExitRaised(ema.err)
    ELSE IF ~chandelier.ok THEN ExitRaised(chandelier.err)
    ELSE select_exit(cfg,
                     IF cur_arg = None THEN R(PyFromEnd(md.closes, 1)) ELSE cur_arg,
                     cost, ema.val, chandelier.val)

calculate_exit_price(cfg, md, cur_arg, cost) ==
    exit_from_indicators(cfg, md, cur_arg, cost,
        exponential_moving_average(md.closes, cfg.ema_period),
        chandelier_exit(md, cfg.chandelier_period, cfg.chandelier_multiplier))

-----------------------------------------------------------------------------
(* Configurations.  Periods are integers and thresholds are floats read    *)
(* from the environment by load_trading_config; the model draws them from  *)
(* small sets (short periods keep the price series short).                 *)

Pct(x) == Norm(x, 100)

MaxEmaPeriod == 3

MaxBars == 12

\* the candles average_true_range(md, 10) needs
MinBarsForChandelier == ChandelierATRPeriod + 1

BaseConfig ==
    [tickers |-> <<>>, dry_run |-> FALSE,
     sma_period |-> 3, ema_period |-> 3, breakeven_ema_period |-> 2,
     atr_period |-> ChandelierATRPeriod, chandelier_period |-> 3,
     chandelier_multiplier |-> R(3),
     profit_threshold |-> Pct(5), loss_threshold |-> Pct(-3),
     max_loss_percent |-> Pct(5)]

\* candles whose close moves by `step` a bar, with high and low `spread` away
Candles(n, base, step, spread) ==
    [i \in 1..n |-> [high  |-> base + step * i + spread,
                     low   |-> base + step * i - spread,
                     close |-> base + step * i]]

-----------------------------------------------------------------------------
(* SpecExit: calculate_exit_price applied to inputs drawn from bounded sets.*)

\* <<profit_threshold, loss_threshold>>: TradingConfig validates neither
ThresholdPairs == {<<Pct(5), Pct(-3)>>, <<Pct(5), Pct(5)>>, <<Pct(-3), Pct(5)>>}

ExitConfigs ==
    {[BaseConfig EXCEPT !.ema_period = e, !.chandelier_period = cp,
                        !.chandelier_multiplier = m,
                        !.profit_threshold = t[1], !.loss_threshold = t[2]] :
        e \in 1..MaxEmaPeriod, cp \in {1, 3, MaxBars},
        m \in {Norm(1, 2), R(3)}, t \in ThresholdPairs}

ExitSeries ==
    {MarketData("A", Candles(n, base, step, spread)) :
        n \in {2, MinBarsForChandelier, MaxBars}, base \in {90, 100},
        step \in {-1, 0, 1}, spread \in {0, 1}}

ExitCurrentPrices == {None} \cup {R(x) : x \in {90, 97, 100, 105, 110}}

ExitAvgCosts == {None, R(0), R(100), R(-100)}

ExitPending ==
    [ok |-> FALSE, err |-> "pending", exit_price |-> None, ema |-> None,
     chandelier |-> None, strategy |-> "none"]

\* no indicator call in progress
IndPending == [fn |-> "none", res |-> [ok |-> FALSE, val |-> None, err |-> "pending"]]

IndIdle ==
    /\ ind_series = None
    /\ ind_input = None
    /\ ind_period = 0
    /\ ind_multiplier = None
    /\ ind_result = IndPending

\* no export in progress
ExportIdle ==
    /\ now = 0
    /\ account_orders = <<>>
    /\ last_execution = None
    /\ output_file = None
    /\ uploads = <<>>
    /\ job_runs = 0
    /\ export_pending = None
    /\ export_runs = <<>>

RunIdle ==
    /\ env = None
    /\ broker_positions = <<>>
    /\ broker_orders = <<>>
    /\ pc = "exited"
    /\ positions = <<>>
    /\ open_orders = <<>>
    /\ fetch_failed = {}
    /\ idx = 0
    /\ success_count = 0
    /\ results = <<>>
    /\ calls = <<>>
    /\ history_calls = <<>>
    /\ run_result = None
    /\ exit_code = None

InitExit ==
    /\ config \in ExitConfigs
    /\ market_data \in ExitSeries
    /\ current_price \in ExitCurrentPrices
    /\ avg_cost \in ExitAvgCosts
    /\ exit_result = ExitPending
    /\ RunIdle
    /\ IndIdle
    /\ ExportIdle

CalculateExitPrice ==
    /\ exit_result = ExitPending
    /\ exit_result' = calculate_exit_price(config, market_data, current_price, avg_cost)
    /\ UNCHANGED <<config, market_data, current_price, avg_cost, run_vars,
                   ind_vars, export_vars>>

NextExit == CalculateExitPrice

SpecExit == InitExit /\ [][NextExit]_vars

-----------------------------------------------------------------------------
(* SpecIndicators: each function of TechnicalIndicators applied to a price *)
(* series, a period and a multiplier drawn from bounded sets.              *)

MaxIndPeriod == 5

\* TradingConfig.chandelier_period as it is by default
DefaultChandelierPeriod == 22

\* candles with the high `up` above and the low `down` below the close
OffsetCandles(n, base, step, up, down) ==
    [i \in 1..n |-> [high  |-> base + step * i + up,
                     low   |-> base + step * i - down,
                     close |-> base + step * i]]

\* candles of an uneven, not monotonic price
JaggedCandles(n) ==
    [i \in 1..n |-> [high  |-> 100 + ((i * i) % 7) + 1 + (i % 3),
                     low   |-> 100 + ((i * i) % 7) - (i % 2),
                     close |-> 100 + ((i * i) % 7)]]

\* candles of a price that rises at every bar, by uneven steps
ClimbingCandles(n) ==
    [i \in 1..n |-> [high  |-> 100 + 2 * i + (i % 2) + 1,
                     low   |-> 100 + 2 * i + (i % 2) - 1,
                     close |-> 100 + 2 * i + (i % 2)]]

\* series of 1 to MaxBars bars: the closes 10, 11, 12, ... and an uneven one
ShortSeries ==
    {MarketData("A", Candles(n, 9, 1, 1)) : n \in 1..MaxBars}
    \cup {MarketData("A", JaggedCandles(n)) : n \in 1..MaxBars}

\* rising series of DefaultChandelierPeriod bars and one more: with a spread
\* around the close, without one, with high and low both at the previous
\* close, and with uneven steps
LongSeries ==
    {MarketData("A", OffsetCandles(n, 100, 1, up, up)) :
        n \in {DefaultChandelierPeriod, DefaultChandelierPeriod + 1}, up \in {0, 1}}
    \cup {MarketData("A", OffsetCandles(n, 100, 1, -1, 1)) :
              n \in {DefaultChandelierPeriod, DefaultChandelierPeriod + 1}}
    \cup {MarketData("A", ClimbingCandles(n)) :
              n \in {DefaultChandelierPeriod, DefaultChandelierPeriod + 1}}

IndMultipliers == {Norm(1, 2), R(3)}

\* <<series, period, multiplier>>
IndInputs ==
    (ShortSeries \X (1..MaxIndPeriod) \X IndMultipliers)
    \cup ((ShortSeries \cup LongSeries)
             \X {ChandelierATRPeriod, DefaultChandelierPeriod} \X {R(3)})

InitIndicators ==
    /\ \E in \in IndInputs :
          /\ ind_series = in[1]
          /\ ind_input = in[1]
          /\ ind_period = in[2]
          /\ ind_multiplier = in[3]
    /\ ind_result = IndPending
    /\ config = None
    /\ market_data = None
    /\ current_price = None
    /\ avg_cost = None
    /\ exit_result = ExitPending
    /\ RunIdle
    /\ ExportIdle

\* the arguments of the call, which no indicator writes to
ind_args == <<ind_series, ind_input, ind_period, ind_multiplier>>

SimpleMovingAverage ==
    /\ ind_result = IndPending
    /\ ind_result' = [fn |-> "sma",
                      res |-> simple_moving_average(ind_series.closes, ind_period)]
    /\ UNCHANGED <<config, exit_vars, run_vars, ind_args,
                   export_vars>>

\* the periods above MaxIndPeriod are called on too short a series only
ExponentialMovingAverage ==
    /\ ind_result = IndPending
    /\ ind_period <= MaxIndPeriod \/ Len(ind_series.closes) < ind_period
    /\ ind_result' = [fn |-> "ema",
                      res |-> exponential_moving_average(ind_series.closes,
                                                         ind_period)]
    /\ UNCHANGED <<config, exit_vars, run_vars, ind_args,
                   export_vars>>

AverageTrueRange ==
    /\ ind_result = IndPending
    /\ ind_result' = [fn |-> "atr",
                      res |-> average_true_range(ind_series, ind_period)]
    /\ UNCHANGED <<config, exit_vars, run_vars, ind_args,
                   export_vars>>

ChandelierExit ==
    /\ ind_result = IndPending
    /\ ind_result' = [fn |-> "chandelier",
                      res |-> chandelier_exit(ind_series, ind_period,
                                              ind_multiplier)]
    /\ UNCHANGED <<config, exit_vars, run_vars, ind_args,
                   export_vars>>

NextIndicators ==
    \/ SimpleMovingAverage
    \/ ExponentialMovingAverage
    \/ AverageTrueRange
    \/ ChandelierExit

SpecIndicators == InitIndicators /\ [][NextIndicators]_vars

-----------------------------------------------------------------------------
(* The broker's JSON records, with the fields the code reads.              *)

\* a position; averagePrice is None when the key is absent
Position(symbol, assetType, long, short, avg) ==
    [wellformed |-> TRUE, symbol |-> symbol, assetType |-> assetType,
     longQuantity |-> long, shortQuantity |-> short, averagePrice |-> avg]

\* a position record without the 'instrument' key
MalformedPosition ==
    [wellformed |-> FALSE, symbol |-> "", assetType |-> "",
     longQuantity |-> 0, shortQuantity |-> 0, averagePrice |-> None]

Leg(symbol, instruction) == [symbol |-> symbol, instruction |-> instruction]

\* an order; remainingQuantity is None when the key is absent, else <<n>>
BrokerOrder(orderId, status, remaining, legs) ==
    [wellformed |-> TRUE, orderId |-> orderId, status |-> status,
     remainingQuantity |-> remaining, orderLegCollection |-> legs]

Order(orderId, remaining, legs) ==
    BrokerOrder(orderId, "WORKING", <<remaining>>, legs)

\* an order record without the 'orderLegCollection' key
MalformedOrder(orderId, remaining) ==
    [wellformed |-> FALSE, orderId |-> orderId, status |-> "WORKING",
     remainingQuantity |-> <<remaining>>, orderLegCollection |-> <<>>]

-----------------------------------------------------------------------------
(* TradingManager: the snapshot fetches.                                   *)

get_positions(account_positions, ok) ==
    IF ok THEN account_positions ELSE <<>>

\* d.get(key, default), the value of the key being None when it is absent
dict_get(value, default) == IF value = None THEN default ELSE value[1]

\* a variant of is_open that also asks for the status of a working order
is_open_working(o) ==
    o.status = "WORKING" /\ dict_get(o.remainingQuantity, 0) > 0

is_open(o) == dict_get(o.remainingQuantity, 0) > 0

get_open_orders(raw_orders, ok) ==
    IF ok THEN SelectSeq(raw_orders, is_open) ELSE <<>>

min_required(cfg) ==
    LET a == IF cfg.ema_period > cfg.sma_period THEN cfg.ema_period
             ELSE cfg.sma_period
        b == IF cfg.atr_period + 1 > a THEN cfg.atr_period + 1 ELSE a
    IN  IF cfg.chandelier_period > b THEN cfg.chandelier_period ELSE b

\* hist: [ok |-> whether the price-history call returned, candles |-> its candles]
\* the result also records how many candles came back (None: the call raised)
get_market_data(cfg, symbol, hist) ==
    IF ~hist.ok
    THEN [md |-> None, candles |-> None,
          logs |-> << <<"error", "market_data_failed">> >>]
    ELSE IF hist.candles = <<>>
    THEN [md |-> None, candles |-> <<0>>,
          logs |-> << <<"warning", "no_market_data">> >>]
    ELSE IF Len(hist.candles) < min_required(cfg)
    THEN [md |-> None, candles |-> <<Len(hist.candles)>>,
          logs |-> << <<"warning", "insufficient_data">> >>]
    ELSE [md |-> <<MarketData(symbol, hist.candles)>>,
          candles |-> <<Len(hist.candles)>>, logs |-> <<>>]

-----------------------------------------------------------------------------
(* TradingManager: position and order lookup.                              *)

\* the least element of a non-empty set of integers
Least(S) == CHOOSE i \in S : \A j \in S : i <= j

\* the scan of next(...) over `seq`: it stops at the first index in `hits`
\* (the result) or in `bad` (the read raises), whichever comes first
first_of(seq, hits, bad) ==
    IF hits \cup bad = {} THEN [raised |-> FALSE, found |-> None]
    ELSE LET i == Least(hits \cup bad)
         IN  IF i \in bad THEN [raised |-> TRUE, found |-> None]
             ELSE [raised |-> FALSE, found |-> <<seq[i]>>]

position_matches(symbol, p) ==
    p.assetType # "COLLECTIVE_INVESTMENT" /\ p.symbol = symbol

\* next(p for p in positions if ...): the first match, None when there is
\* none; reading a record without 'instrument' on the way raises KeyError
find_position(symbol, ps) ==
    first_of(ps,
             {i \in 1..Len(ps) : ps[i].wellformed /\ position_matches(symbol, ps[i])},
             {i \in 1..Len(ps) : ~ps[i].wellformed})

\* get_position_info after the lookup f
position_info(f) ==
    IF f.raised THEN [raised |-> TRUE, quantity |-> 0, avg_cost |-> None]
    ELSE IF f.found = None
    THEN [raised |-> FALSE, quantity |-> 0, avg_cost |-> None]
    ELSE [raised |-> FALSE,
          quantity |-> f.found[1].longQuantity - f.found[1].shortQuantity,
          avg_cost |-> f.found[1].averagePrice]

get_position_info(symbol, ps) == position_info(find_position(symbol, ps))

\* a variant of has_sell_leg that takes a leg of any instruction
has_any_leg(symbol, o) ==
    \E i \in 1..Len(o.orderLegCollection) :
        o.orderLegCollection[i].symbol = symbol

has_sell_leg(symbol, o) ==
    \E i \in 1..Len(o.orderLegCollection) :
        /\ o.orderLegCollection[i].symbol = symbol
        /\ o.orderLegCollection[i].instruction = "SELL"

\* next(o for o in open_orders if any(...)): the first match, None when there
\* is none; reading a record without 'orderLegCollection' raises KeyError
find_existing_sell_order(symbol, orders) ==
    first_of(orders,
             {i \in 1..Len(orders) : orders[i].wellformed
                                      /\ has_sell_leg(symbol, orders[i])},
             {i \in 1..Len(orders) : ~orders[i].wellformed})

-----------------------------------------------------------------------------
(* TradingManager: the order.                                              *)

\* f"{x:.2f}" as a number of cents: the nearest cent, a tie to the even one
format_2f(x) ==
    LET n == x[1] * 100
        q == n \div x[2]
        r == n % x[2]
    IN  IF 2 * r < x[2] THEN q
        ELSE IF 2 * r > x[2] THEN q + 1
        ELSE IF q % 2 = 0 THEN q ELSE q + 1

order_type == "STOP"

order_duration == "GOOD_TILL_CANCEL"

create_stop_order(symbol, quantity, stop_price) ==
    [symbol |-> symbol, quantity |-> quantity, instruction |-> "SELL",
     orderType |-> order_type, stopPrice |-> format_2f(stop_price),
     duration |-> order_duration]

broker_call(existing_order, spec, resp) ==
    IF existing_order # None
    THEN [kind |-> "replace_order", order_id |-> <<existing_order[1].orderId>>,
          spec |-> spec, response |-> resp]
    ELSE [kind |-> "place_order", order_id |-> None, spec |-> spec,
          response |-> resp]

\* a variant of accepted that takes a status of 400 too
accepted_or_400(resp) == resp.code <= 400

accepted(resp) == resp.code < 400

\* a variant of submit_order that makes the broker call in a dry run too
submit_order_live(cfg, existing_order, resp, spec) ==
    [action |-> IF existing_order # None THEN "replace" ELSE "place",
     target |-> IF existing_order # None THEN <<existing_order[1].orderId>>
                ELSE None,
     spec |-> spec,
     ret |-> IF resp.raises THEN FALSE ELSE accepted(resp),
     call |-> <<broker_call(existing_order, spec, resp)>>,
     logs |-> IF resp.raises THEN << <<"error", "order_error">> >>
              ELSE << <<"info", "order_response">> >>]

\* execute_order_action once the order spec is built
\* resp: what the broker call does if it is made: [raises, code]
submit_order(cfg, existing_order, resp, spec) ==
    [action |-> IF existing_order # None THEN "replace" ELSE "place",
     target |-> IF existing_order # None THEN <<existing_order[1].orderId>>
                ELSE None,
     spec |-> spec,
     ret |-> IF cfg.dry_run THEN TRUE
             ELSE IF resp.raises THEN FALSE ELSE accepted(resp),
     call |-> IF cfg.dry_run THEN None
              ELSE <<broker_call(existing_order, spec, resp)>>,
     logs |-> IF cfg.dry_run THEN << <<"info", "dry_run">> >>
              ELSE IF resp.raises THEN << <<"error", "order_error">> >>
              ELSE << <<"info", "order_response">> >>]

\* a variant of execute_order_action whose replacement keeps the quantity of
\* the order it replaces
execute_order_keep_quantity(cfg, symbol, quantity, exit_price, existing_order, resp) ==
    submit_order(cfg, existing_order, resp,
                 create_stop_order(symbol,
                                   IF existing_order # None
                                   THEN existing_order[1].remainingQuantity[1]
                                   ELSE quantity,
                                   exit_price))

execute_order_action(cfg, symbol, quantity, exit_price, existing_order, resp) ==
    submit_order(cfg, existing_order, resp,
                 create_stop_order(symbol, quantity, exit_price))

-----------------------------------------------------------------------------
(* TradingManager.process_symbol: what one call did.                       *)

SymbolOutcome(symbol) ==
    [symbol |-> symbol, raised |-> FALSE, ret |-> FALSE, stage |-> "start",
     quantity |-> 0, history_fetched |-> FALSE, indicators_called |-> FALSE,
     candles |-> None, current_price |-> None, exit |-> ExitPending,
     action |-> "none",
     target |-> None, spec |-> None, call |-> None, logs |-> <<>>]

\* process_symbol from the order step on
symbol_order(o, ex) ==
    [o EXCEPT !.ret = ex.ret, !.stage = "order", !.action = ex.action,
              !.target = ex.target, !.spec = <<ex.spec>>, !.call = ex.call,
              !.logs = << <<"info", "strategy">> >> \o ex.logs]

\* process_symbol once calculate_exit_price is done
symbol_exit_price(cfg, o, existing, resp, calc) ==
    IF ~calc.ok
    THEN [o EXCEPT !.indicators_called = TRUE, !.exit = calc,
                   !.stage = "exit_price_failed",
                   !.logs = << <<"error", "exit_price_failed">> >>]
    ELSE symbol_order([o EXCEPT !.indicators_called = TRUE, !.exit = calc],
                      execute_order_action(cfg, o.symbol, o.quantity,
                                           calc.exit_price, existing.found, resp))

\* process_symbol once find_existing_sell_order is done
symbol_lookup(cfg, o, avg, md, resp, existing) ==
    IF existing.raised
    THEN [o EXCEPT !.raised = TRUE, !.stage = "order_lookup_error"]
    ELSE symbol_exit_price(cfg,
             [o EXCEPT !.current_price = R(PyFromEnd(md.closes, 1))],
             existing, resp,
             calculate_exit_price(cfg, md, R(PyFromEnd(md.closes, 1)), avg))

\* process_symbol once get_market_data is done
symbol_market_data(cfg, o, avg, orders, resp, got) ==
    IF got.md = None
    THEN [o EXCEPT !.history_fetched = TRUE, !.candles = got.candles,
                   !.stage = "no_market_data",
                   !.logs = got.logs \o << <<"error", "no_market_data">> >>]
    ELSE symbol_lookup(cfg, [o EXCEPT !.history_fetched = TRUE,
                                      !.candles = got.candles], avg, got.md[1],
                       resp, find_existing_sell_order(o.symbol, orders))

\* a variant of symbol_position that skips only a negative quantity
symbol_position_strict(cfg, o, orders, hist, resp, info) ==
    IF info.raised
    THEN [o EXCEPT !.raised = TRUE, !.stage = "position_error"]
    ELSE IF info.quantity < 0
    THEN [o EXCEPT !.ret = TRUE, !.stage = "no_position",
                   !.logs = << <<"info", "no_shares">> >>]
    ELSE symbol_market_data(cfg, [o EXCEPT !.quantity = info.quantity],
                            info.avg_cost, orders, resp,
                            get_market_data(cfg, o.symbol, hist))

\* process_symbol once get_position_info is done
symbol_position(cfg, o, orders, hist, resp, info) ==
    IF info.raised
    THEN [o EXCEPT !.raised = TRUE, !.stage = "position_error"]
    ELSE IF info.quantity <= 0
    THEN [o EXCEPT !.ret = TRUE, !.stage = "no_position",
                   !.logs = << <<"info", "no_shares">> >>]
    ELSE symbol_market_data(cfg, [o EXCEPT !.quantity = info.quantity],
                            info.avg_cost, orders, resp,
                            get_market_data(cfg, o.symbol, hist))

process_symbol(cfg, symbol, ps, orders, hist, resp) ==
    symbol_position(cfg, SymbolOutcome(symbol), orders, hist, resp,
                    get_position_info(symbol, ps))

-----------------------------------------------------------------------------
(* config.py: what main() reads from the environment.                      *)
(* env.missing: the required variables that are unset; env.TICKERS: None   *)
(* when unset, else the comma-separated tokens (stripped); env.cfg: the    *)
(* other settings as int() / float() parse them; env.client_ok: whether    *)
(* easy_client and get_account_numbers succeed.                            *)

RequiredVars == {"SCHWAB_CLIENT_ID", "SCHWAB_CLIENT_SECRET", "CALLBACK_URL"}

validate_environment(e) == e.missing = {}

nonempty_token(t) == t # ""

\* a variant of periods_positive that leaves the ATR period unchecked
periods_positive_but_atr(cfg) ==
    /\ cfg.sma_period > 0
    /\ cfg.ema_period > 0
    /\ cfg.breakeven_ema_period > 0
    /\ cfg.chandelier_period > 0

periods_positive(cfg) ==
    /\ cfg.sma_period > 0
    /\ cfg.ema_period > 0
    /\ cfg.breakeven_ema_period > 0
    /\ cfg.atr_period > 0
    /\ cfg.chandelier_period > 0

\* load_trading_config, with the __post_init__ checks of TradingConfig
load_trading_config(e) ==
    IF e.TICKERS = None THEN Raised("AttributeError")
    ELSE IF e.missing # {} THEN Raised("ValueError")
    ELSE IF ~periods_positive(e.cfg) THEN Raised("ValueError")
    ELSE Returned([e.cfg EXCEPT !.tickers = SelectSeq(e.TICKERS[1], nonempty_token)])

-----------------------------------------------------------------------------
(* The inputs of a run.                                                    *)

Symbols == {"A", "B"}

MaxTickers == 2

MaxOrders == 3

SeqsUpTo(S, n) == UNION {[1..k -> S] : k \in 0..n}

\* price histories: the call raising, no candles, too few candles, and
\* enough candles of a falling and of a rising price
HistoryResponses ==
    {[ok |-> FALSE, candles |-> <<>>], [ok |-> TRUE, candles |-> <<>>]}
    \cup {[ok |-> TRUE, candles |-> Candles(5, 100, 0, 1)]}
    \cup {[ok |-> TRUE, candles |-> Candles(MinBarsForChandelier, 100, step, 1)] :
             step \in {-1, 1}}

BrokerResponses ==
    {[raises |-> FALSE, code |-> 201], [raises |-> FALSE, code |-> 400],
     [raises |-> TRUE, code |-> 0]}

RunConfig(dry, atr) ==
    [BaseConfig EXCEPT !.dry_run = dry, !.ema_period = 2, !.atr_period = atr]

GoodEnv(tokens, dry, atr) ==
    [missing |-> {}, TICKERS |-> <<tokens>>, cfg |-> RunConfig(dry, atr),
     client_ok |-> TRUE]

\* environments main() refuses: a missing credential, TICKERS unset, a
\* period that is not positive, a client that cannot be set up
BadEnvs ==
    LET g == GoodEnv(<<"A">>, FALSE, ChandelierATRPeriod)
    IN  {[g EXCEPT !.missing = {v}] : v \in RequiredVars}
        \cup {[g EXCEPT !.TICKERS = None], [g EXCEPT !.client_ok = FALSE]}
        \cup {[g EXCEPT !.cfg.sma_period = 0], [g EXCEPT !.cfg.ema_period = -1],
              [g EXCEPT !.cfg.breakeven_ema_period = 0],
              [g EXCEPT !.cfg.atr_period = 0],
              [g EXCEPT !.cfg.chandelier_period = 0]}

Held(symbol, avg) == Position(symbol, "EQUITY", 10, 0, avg)

-----------------------------------------------------------------------------
(* main() and TradingManager.run().                                        *)

Main ==
    /\ pc = "main"
    /\ \E loaded \in {load_trading_config(env)} :
           IF validate_environment(env) /\ loaded.ok /\ env.client_ok
           THEN /\ config' = loaded.val
                /\ pc' = "run"
                /\ UNCHANGED exit_code
           ELSE /\ pc' = "exited"
                /\ exit_code' = <<1>>
                /\ UNCHANGED config
    /\ UNCHANGED <<exit_vars, ind_vars, export_vars, env, broker_positions,
                   broker_orders, positions,
                   open_orders, fetch_failed, idx, success_count, results, calls,
                   history_calls, run_result>>

RunFetch ==
    /\ pc = "run"
    /\ \E pos_ok \in BOOLEAN, ord_ok \in BOOLEAN :
          /\ positions' = get_positions(broker_positions, pos_ok)
          /\ open_orders' = get_open_orders(broker_orders, ord_ok)
          /\ fetch_failed' = (IF pos_ok THEN {} ELSE {"positions"})
                                \cup (IF ord_ok THEN {} ELSE {"orders"})
    /\ idx' = 0
    /\ success_count' = 0
    /\ pc' = "loop"
    /\ UNCHANGED <<config, exit_vars, ind_vars, export_vars, env, broker_positions, broker_orders,
                   results, calls, history_calls, run_result, exit_code>>

\* one iteration of the loop of run(); an exception leaving process_symbol
\* is caught by run(), which returns False
ProcessSymbol ==
    /\ pc = "loop"
    /\ idx < Len(config.tickers)
    /\ \E hist \in HistoryResponses, resp \in BrokerResponses :
          \E o \in {process_symbol(config, config.tickers[idx + 1], positions,
                                    open_orders, hist, resp)} :
              /\ results' = Append(results, o)
              /\ history_calls' = IF o.history_fetched
                                  THEN Append(history_calls, o.symbol)
                                  ELSE history_calls
              /\ calls' = IF o.call # None THEN Append(calls, o.call[1]) ELSE calls
              /\ IF o.raised
                 THEN /\ pc' = "returned"
                      /\ run_result' = <<FALSE>>
                      /\ UNCHANGED <<idx, success_count>>
                 ELSE /\ idx' = idx + 1
                      /\ success_count' = success_count + (IF o.ret THEN 1 ELSE 0)
                      /\ UNCHANGED <<pc, run_result>>
    /\ UNCHANGED <<config, exit_vars, ind_vars, export_vars, env, broker_positions, broker_orders,
                   positions, open_orders, fetch_failed, exit_code>>

\* a variant of run_success that asks for one success only
run_any_success(count, tickers) == count > 0

\* the value run() returns after the loop
run_success(count, tickers) == count = Len(tickers)

RunReturn ==
    /\ pc = "loop"
    /\ idx = Len(config.tickers)
    /\ run_result' = <<run_success(success_count, config.tickers)>>
    /\ pc' = "returned"
    /\ UNCHANGED <<config, exit_vars, ind_vars, export_vars, env, broker_positions, broker_orders,
                   positions, open_orders, fetch_failed, idx, success_count,
                   results, calls, history_calls, exit_code>>

MainExit ==
    /\ pc = "returned"
    /\ exit_code' = IF run_result[1] THEN <<0>> ELSE <<1>>
    /\ pc' = "exited"
    /\ UNCHANGED <<config, exit_vars, ind_vars, export_vars, env, broker_positions, broker_orders,
                   positions, open_orders, fetch_failed, idx, success_count,
                   results, calls, history_calls, run_result>>

\* main() about to start
RunStart ==
    /\ config = None
    /\ market_data = None
    /\ current_price = None
    /\ avg_cost = None
    /\ exit_result = ExitPending
    /\ pc = "main"
    /\ positions = <<>>
    /\ open_orders = <<>>
    /\ fetch_failed = {}
    /\ idx = 0
    /\ success_count = 0
    /\ results = <<>>
    /\ calls = <<>>
    /\ history_calls = <<>>
    /\ run_result = None
    /\ exit_code = None
    /\ IndIdle
    /\ ExportIdle

Next ==
    \/ Main
    \/ RunFetch
    \/ ProcessSymbol
    \/ RunReturn
    \/ MainExit

-----------------------------------------------------------------------------
(* Spec: runs over every ticker list, with the account drawn from a few    *)
(* positions and orders lists.                                             *)

RunEnvs ==
    {GoodEnv(t, dry, ChandelierATRPeriod) :
        t \in SeqsUpTo(Symbols, MaxTickers) \cup {<<"", "A">>}, dry \in BOOLEAN}
    \cup {GoodEnv(t, FALSE, 2) : t \in SeqsUpTo(Symbols, MaxTickers)}
    \cup BadEnvs

RunPositionLists ==
    {<<>>,
     <<Held("A", R(100))>>,
     <<Held("A", None)>>,
     <<Held("A", R(0))>>,
     <<Position("A", "EQUITY", 0, 5, R(100))>>,
     <<Position("A", "COLLECTIVE_INVESTMENT", 10, 0, R(100))>>,
     <<Held("B", R(100)), Held("A", R(100))>>,
     <<MalformedPosition, Held("A", R(100))>>,
     <<Held("A", R(100)), MalformedPosition>>}

RunOrderLists ==
    {<<>>,
     <<Order(1, 10, <<Leg("A", "SELL")>>)>>,
     <<Order(7, 10, <<Leg("B", "SELL")>>), Order(3, 10, <<Leg("A", "SELL")>>)>>,
     <<MalformedOrder(1, 10)>>}

\* the broker's order ids: distinct, in no order
OrderIdAt(i) == (3 * i) % 7

OrderKinds == {"sellA", "buyA", "sellB", "buyAsellB", "filledSellA", "malformed"}

OrderOfKind(kind, id) ==
    CASE kind = "sellA" -> Order(id, 5, <<Leg("A", "SELL")>>)
      [] kind = "buyA" -> Order(id, 10, <<Leg("A", "BUY")>>)
      [] kind = "sellB" -> Order(id, 5, <<Leg("B", "SELL")>>)
      [] kind = "buyAsellB" -> Order(id, 10, <<Leg("A", "BUY"), Leg("B", "SELL")>>)
      [] kind = "filledSellA" -> Order(id, 0, <<Leg("A", "SELL")>>)
      [] OTHER -> MalformedOrder(id, 10)

Init ==
    /\ env \in RunEnvs
    /\ broker_positions \in RunPositionLists
    /\ broker_orders \in RunOrderLists
    /\ RunStart

Spec == Init /\ [][Next]_vars

-----------------------------------------------------------------------------
(* SpecOrder: runs over one ticker of a held symbol, with the account's    *)
(* orders drawn from every list of up to MaxOrders orders.                 *)

OrderEnvs ==
    {GoodEnv(<<s>>, dry, ChandelierATRPeriod) : s \in Symbols, dry \in BOOLEAN}

OrderPositionLists == {<<Held("A", R(100)), Held("B", None)>>}

OrderLists ==
    {[i \in 1..Len(kinds) |-> OrderOfKind(kinds[i], OrderIdAt(i))] :
        kinds \in SeqsUpTo(OrderKinds, MaxOrders)}

InitOrder ==
    /\ env \in OrderEnvs
    /\ broker_positions \in OrderPositionLists
    /\ broker_orders \in OrderLists
    /\ RunStart

SpecOrder == InitOrder /\ [][Next]_vars

-----------------------------------------------------------------------------
(* SpecOpen: runs over one held symbol, with the account's orders, all     *)
(* SELL orders on it, drawn from every list of up to MaxOrders orders of   *)
(* any status and remaining quantity.                                      *)

OpenEnvs == {GoodEnv(<<"A">>, dry, ChandelierATRPeriod) : dry \in BOOLEAN}

OrderStatuses == {"WORKING", "FILLED"}

\* remainingQuantity: the key absent, 0, or 5 shares
RemainingQuantities == {None, <<0>>, <<5>>}

OpenOrderLists ==
    {[i \in 1..Len(l) |->
         BrokerOrder(OrderIdAt(i), l[i][1], l[i][2], <<Leg("A", "SELL")>>)] :
        l \in SeqsUpTo(OrderStatuses \X RemainingQuantities, MaxOrders)}

InitOpen ==
    /\ env \in OpenEnvs
    /\ broker_positions = <<Held("A", R(100))>>
    /\ broker_orders \in OpenOrderLists
    /\ RunStart

SpecOpen == InitOpen /\ [][Next]_vars

-----------------------------------------------------------------------------
(* order_export.py: OrderExporter and OrderExportManager.                  *)
(* Time is an integer count of clock ticks, a day being one tick; a saved  *)
(* date is written with isoformat() and read back with fromisoformat(),    *)
(* which give the same aware datetime.                                     *)

\* timedelta(days=60), the reach of the broker's order query
SixtyDays == 60

\* an order of the account: when it was entered, its status, and how many
\* execution legs its activities hold
ExportOrder(orderId, enteredTime, status, executions) ==
    [orderId |-> orderId, enteredTime |-> enteredTime, status |-> status,
     executions |-> executions]

\* _get_date_range at time t, the state file holding `saved`
get_date_range(cfg, saved, t) ==
    IF saved # None
    THEN [from_date |-> saved[1], to_date |-> t]
    ELSE [from_date |-> IF cfg.cutoff_date > t - SixtyDays THEN cfg.cutoff_date
                        ELSE t - SixtyDays,
          to_date |-> t]

\* the orders the broker returns for from_entered_datetime..to_entered_datetime
orders_entered(orders, range) ==
    LET in_range(o) == /\ range.from_date <= o.enteredTime
                       /\ o.enteredTime <= range.to_date
    IN  SelectSeq(orders, in_range)

\* get_all_orders; fetch: "ok", "http_error" (a status other than 200) or
\* "raised" (the call raised)
get_all_orders(orders, range, fetch) ==
    IF fetch = "ok" THEN orders_entered(orders, range) ELSE <<>>

is_filled(o) == o.status = "FILLED"

filter_filled_orders(orders) == SelectSeq(orders, is_filled)

\* the data rows write_orders_to_csv writes: one for each execution leg of
\* each order, in order (a row is shown by its orderId)
csv_rows(orders) ==
    LET rows[i \in 0..Len(orders)] ==
            IF i = 0 THEN <<>>
            ELSE rows[i - 1] \o [k \in 1..orders[i].executions |-> orders[i].orderId]
    IN  rows[Len(orders)]

\* _save_execution_date(t): the state file afterwards
save_execution_date(saved, t, save_ok) == IF save_ok THEN <<t>> ELSE saved

\* what one export_orders did
ExportOutcome(range, fetch, retrieved, filled, ret, written, saved, state, file) ==
    [from_date |-> range.from_date, to_date |-> range.to_date, fetch |-> fetch,
     retrieved |-> retrieved, filled |-> filled, ret |-> ret, written |-> written,
     saved |-> saved, last_execution |-> state, output_file |-> file]

\* export_orders once the orders are fetched: `saved` is the state file and
\* `file` the CSV file as the run found them, t_save the time of the
\* datetime.now() that is saved
export_fetched(saved, file, range, fetch, all_orders, t_save, write_ok, save_ok) ==
    IF all_orders = <<>>
    THEN ExportOutcome(range, fetch, 0, 0, TRUE, None, save_ok,
                       save_execution_date(saved, t_save, save_ok), file)
    ELSE IF filter_filled_orders(all_orders) = <<>>
    THEN ExportOutcome(range, fetch, Len(all_orders), 0, TRUE, None, save_ok,
                       save_execution_date(saved, t_save, save_ok), file)
    ELSE IF write_ok
    THEN ExportOutcome(range, fetch, Len(all_orders),
                       Len(filter_filled_orders(all_orders)), TRUE,
                       <<csv_rows(filter_filled_orders(all_orders))>>, save_ok,
                       save_execution_date(saved, t_save, save_ok),
                       <<csv_rows(filter_filled_orders(all_orders))>>)
    ELSE ExportOutcome(range, fetch, Len(all_orders),
                       Len(filter_filled_orders(all_orders)), FALSE, None, FALSE,
                       saved, file)

\* _has_orders_to_upload: the file exists and has a line after the header
has_orders_to_upload(file) == file # None /\ 1 + Len(file[1]) > 1

\* OrderExportManager.run after export_orders: what is uploaded, whether the
\* job is triggered, and the value returned
export_upload(ex, upload_ok, trigger_ok) ==
    IF ~ex.ret THEN [uploaded |-> None, triggered |-> FALSE, run_ret |-> FALSE]
    ELSE IF ~has_orders_to_upload(ex.output_file)
    THEN [uploaded |-> None, triggered |-> FALSE, run_ret |-> TRUE]
    ELSE IF ~upload_ok
    THEN [uploaded |-> None, triggered |-> FALSE, run_ret |-> FALSE]
    ELSE [uploaded |-> ex.output_file, triggered |-> trigger_ok,
          run_ret |-> trigger_ok]

-----------------------------------------------------------------------------
(* SpecExport: a sequence of export runs, with orders entered and time     *)
(* passing between them.                                                   *)

MaxExportRuns == 2

MaxExportOrders == 2

MaxElapsed == 3

\* the clock when the first run may start
ExportStart == SixtyDays + 5

ExportConfigs == {[cutoff_date |-> c] : c \in {0, 20}}

FetchOutcomes == {"ok", "http_error", "raised"}

\* an order as the broker may report it: working, filled with one execution
\* leg, or filled with none recorded
EnteredOrders(orderId, t) ==
    {ExportOrder(orderId, t, "WORKING", 0), ExportOrder(orderId, t, "FILLED", 1),
     ExportOrder(orderId, t, "FILLED", 0)}

InitExport ==
    /\ config \in ExportConfigs
    /\ market_data = None
    /\ current_price = None
    /\ avg_cost = None
    /\ exit_result = ExitPending
    /\ RunIdle
    /\ IndIdle
    /\ now = ExportStart
    /\ account_orders = <<>>
    /\ last_execution = None
    /\ output_file = None
    /\ uploads = <<>>
    /\ job_runs = 0
    /\ export_pending = None
    /\ export_runs = <<>>

\* time passes
Tick ==
    /\ now < ExportStart + MaxElapsed
    /\ now' = now + 1
    /\ UNCHANGED <<config, exit_vars, run_vars, ind_vars, account_orders,
                   last_execution, output_file, uploads, job_runs,
                   export_pending, export_runs>>

\* an order is entered at the broker
EnterOrder ==
    /\ Len(account_orders) < MaxExportOrders
    /\ \E o \in EnteredOrders(Len(account_orders) + 1, now) :
          account_orders' = Append(account_orders, o)
    /\ UNCHANGED <<config, exit_vars, run_vars, ind_vars, now, last_execution,
                   output_file, uploads, job_runs, export_pending, export_runs>>

\* OrderExportManager.run up to the broker's answer to the order query of
\* get_all_orders, whose date range ends at the clock of the call
ExportQuery ==
    /\ export_pending = None
    /\ Len(export_runs) < MaxExportRuns
    /\ \E fetch \in FetchOutcomes :
          \E range \in {get_date_range(config, last_execution, now)} :
              export_pending' =
                  << [range |-> range, fetch |-> fetch,
                      all_orders |-> get_all_orders(account_orders, range, fetch)] >>
    /\ UNCHANGED <<config, exit_vars, run_vars, ind_vars, now, account_orders,
                   last_execution, output_file, uploads, job_runs, export_runs>>

\* the rest of OrderExportManager.run: export_orders from the answer on (the
\* date it saves is the clock by then), then the upload and the job trigger
ExportFinish ==
    /\ export_pending # None
    /\ \E write_ok \in BOOLEAN, save_ok \in BOOLEAN, upload_ok \in BOOLEAN,
          trigger_ok \in BOOLEAN :
          \E ex \in {export_fetched(last_execution, output_file,
                                     export_pending[1].range,
                                     export_pending[1].fetch,
                                     export_pending[1].all_orders, now, write_ok,
                                     save_ok)} :
              \E up \in {export_upload(ex, upload_ok, trigger_ok)} :
                  /\ last_execution' = ex.last_execution
                  /\ output_file' = ex.output_file
                  /\ uploads' = IF up.uploaded # None
                                THEN Append(uploads, up.uploaded[1])
                                ELSE uploads
                  /\ job_runs' = job_runs + (IF up.triggered THEN 1 ELSE 0)
                  /\ export_runs' =
                        Append(export_runs,
                               [export |-> ex, upload |-> up,
                                state_before |-> last_execution,
                                file_before |-> output_file])
    /\ export_pending' = None
    /\ UNCHANGED <<config, exit_vars, run_vars, ind_vars, now, account_orders>>

NextExport ==
    \/ Tick
    \/ EnterOrder
    \/ ExportQuery
    \/ ExportFinish

SpecExport == InitExport /\ [][NextExport]_vars

-----------------------------------------------------------------------------
(* Properties of calculate_exit_price, checked under SpecExit.             *)

ExitDone == exit_result # ExitPending

\* the indicator calls of calculate_exit_price on the inputs of this state
ExitEma == exponential_moving_average(market_data.closes, config.ema_period)

ExitChandelier ==
    chandelier_exit(market_data, config.chandelier_period,
                    config.chandelier_multiplier)

IndicatorsCompute == ExitEma.ok /\ ExitChandelier.ok

\* the price the P&L is taken at
ExitCurrent ==
    IF current_price = None THEN R(PyFromEnd(market_data.closes, 1))
    ELSE current_price

\* (current - avg_cost) / avg_cost, for avg_cost present and not 0
ExitPnl == RDiv(RSub(ExitCurrent, avg_cost), avg_cost)

\* avg_cost * (1 - max_loss_percent)
MaxLossFloor == RMul(avg_cost, RSub(R(1), config.max_loss_percent))

IsMinOf(x, a, b) == x \in {a, b} /\ RLe(x, a) /\ RLe(x, b)

IsMaxOf(x, a, b) == x \in {a, b} /\ RLe(a, x) /\ RLe(b, x)

\* C1: whenever calculate_exit_price returns, the EMA and Chandelier values it
\* returns are the raw indicator values, and the stop price is the selected
\* strategy's formula of them: WINNER_TRAILING the smaller of the two;
\* LOSS_CUTTING the larger of (the smaller of the two) and the max-loss floor
\* avg_cost * (1 - max_loss_percent), so never below that floor;
\* BREAKEVEN_CONSERVATIVE and DEFAULT_CONSERVATIVE the larger of the two.
C1_ExitPriceFormula ==
    (ExitDone /\ exit_result.ok) =>
        /\ exit_result.ema = ExitEma.val
        /\ exit_result.chandelier = ExitChandelier.val
        /\ exit_result.strategy = "WINNER_TRAILING" =>
              IsMinOf(exit_result.exit_price, ExitEma.val, ExitChandelier.val)
        /\ exit_result.strategy = "LOSS_CUTTING" =>
              /\ RLe(MaxLossFloor, exit_result.exit_price)
              /\ \E m \in {ExitEma.val, ExitChandelier.val} :
                    /\ IsMinOf(m, ExitEma.val, ExitChandelier.val)
                    /\ IsMaxOf(exit_result.exit_price, m, MaxLossFloor)
        /\ exit_result.strategy \in {"BREAKEVEN_CONSERVATIVE", "DEFAULT_CONSERVATIVE"} =>
              IsMaxOf(exit_result.exit_price, ExitEma.val, ExitChandelier.val)
        /\ exit_result.strategy \in {"WINNER_TRAILING", "LOSS_CUTTING",
                                     "BREAKEVEN_CONSERVATIVE", "DEFAULT_CONSERVATIVE"}

\* C1 witness: a LOSS_CUTTING result where the two indicators differ and the
\* max-loss floor lies above both, so the floor is the stop
C1_Witness ==
    /\ ExitDone
    /\ exit_result.ok
    /\ exit_result.strategy = "LOSS_CUTTING"
    /\ exit_result.ema # exit_result.chandelier
    /\ RLt(exit_result.ema, MaxLossFloor)
    /\ RLt(exit_result.chandelier, MaxLossFloor)
    /\ exit_result.exit_price = MaxLossFloor

\* C2 (as claimed): whenever both indicators compute, calculate_exit_price
\* returns exactly one of the four strategies, for an average cost that is
\* absent or any number, zero included, and DEFAULT_CONSERVATIVE exactly when
\* the average cost is absent.
C2_SelectionTotal ==
    (ExitDone /\ IndicatorsCompute) =>
        /\ exit_result.ok
        /\ exit_result.strategy \in {"WINNER_TRAILING", "LOSS_CUTTING",
                                     "BREAKEVEN_CONSERVATIVE", "DEFAULT_CONSERVATIVE"}
        /\ (exit_result.strategy = "DEFAULT_CONSERVATIVE") <=> (avg_cost = None)

\* C3 (as amended): for an accepted configuration (positive periods), a P&L
\* equal to profit_threshold selects WINNER_TRAILING; a P&L equal to
\* loss_threshold selects LOSS_CUTTING when loss_threshold < profit_threshold.
C3_ClosedBoundsOrdered ==
    (ExitDone /\ exit_result.ok /\ avg_cost # None) =>
        /\ ExitPnl = config.profit_threshold =>
              exit_result.strategy = "WINNER_TRAILING"
        /\ (/\ ExitPnl = config.loss_threshold
            /\ RLt(config.loss_threshold, config.profit_threshold)) =>
              exit_result.strategy = "LOSS_CUTTING"

\* C3 witness: the P&L is exactly loss_threshold, below profit_threshold, and
\* LOSS_CUTTING is selected
C3_Witness ==
    /\ ExitDone
    /\ exit_result.ok
    /\ avg_cost # None
    /\ ExitPnl = config.loss_threshold
    /\ RLt(config.loss_threshold, config.profit_threshold)
    /\ exit_result.strategy = "LOSS_CUTTING"

\* C3 (as claimed): for every accepted configuration, a P&L equal to
\* profit_threshold selects WINNER_TRAILING and a P&L equal to loss_threshold
\* selects LOSS_CUTTING.
C3_ClosedBoundsAnyConfig ==
    (ExitDone /\ exit_result.ok /\ avg_cost # None) =>
        /\ ExitPnl = config.profit_threshold =>
              exit_result.strategy = "WINNER_TRAILING"
        /\ ExitPnl = config.loss_threshold =>
              exit_result.strategy = "LOSS_CUTTING"

-----------------------------------------------------------------------------
(* Properties of the order step, checked under SpecOrder.                  *)

\* the results of the symbols that reached the order step
AtOrderStep == {i \in 1..Len(results) : results[i].stage = "order"}

\* the places in the open-orders snapshot of the orders with a SELL leg on
\* the symbol
SellOrdersOn(symbol) ==
    {j \in 1..Len(open_orders) :
        \E k \in 1..Len(open_orders[j].orderLegCollection) :
            /\ open_orders[j].orderLegCollection[k].symbol = symbol
            /\ open_orders[j].orderLegCollection[k].instruction = "SELL"}

\* C4: for every symbol that reaches the order step, the action is a new
\* placement when no order of the open-orders snapshot has a SELL leg on the
\* symbol, and otherwise a replacement of the first order of the snapshot, in
\* list order, that has such a leg; the target is never an order without a
\* SELL leg on the symbol.
C4_FirstSellOrderReplaced ==
    \A i \in AtOrderStep :
        LET hits == SellOrdersOn(results[i].symbol)
        IN  /\ hits = {} => /\ results[i].action = "place"
                            /\ results[i].target = None
            /\ hits # {} =>
                  /\ results[i].action = "replace"
                  /\ \E j \in hits :
                        /\ \A h \in hits : j <= h
                        /\ results[i].target = <<open_orders[j].orderId>>
            /\ results[i].call # None =>
                  /\ results[i].call[1].order_id = results[i].target
                  /\ results[i].call[1].kind =
                        (IF hits = {} THEN "place_order" ELSE "replace_order")

\* C4 witness: a replacement whose target is not the first order of the list,
\* with an order without a SELL leg on the symbol before it and another SELL
\* order on the symbol after it
C4_Witness ==
    \E i \in AtOrderStep :
        /\ results[i].action = "replace"
        /\ results[i].call # None
        /\ \E j \in SellOrdersOn(results[i].symbol) :
              /\ j > 1
              /\ results[i].target = <<open_orders[j].orderId>>
              /\ \E h \in SellOrdersOn(results[i].symbol) : h > j

\* the net quantity of the first position of the snapshot on the symbol
HeldQuantity(symbol) ==
    LET at == {j \in 1..Len(positions) :
                  /\ positions[j].symbol = symbol
                  /\ positions[j].assetType # "COLLECTIVE_INVESTMENT"}
    IN  IF at = {} THEN 0
        ELSE LET j == CHOOSE j \in at : \A h \in at : j <= h
             IN  positions[j].longQuantity - positions[j].shortQuantity

\* C5: for every symbol that reaches the order step, placed or replaced, the
\* order specification is the SELL of the position quantity of the symbol at
\* the computed stop price (to the cent), of type STOP and duration
\* GOOD_TILL_CANCEL; the broker call, when one is made, carries that very
\* specification, and an existing order decides only the call that is made:
\* replace_order with the existing order id, or place_order.
C5_SameSpecification ==
    \A i \in AtOrderStep :
        /\ results[i].spec =
              << [symbol |-> results[i].symbol,
                  quantity |-> HeldQuantity(results[i].symbol),
                  instruction |-> "SELL",
                  orderType |-> "STOP",
                  stopPrice |-> format_2f(results[i].exit.exit_price),
                  duration |-> "GOOD_TILL_CANCEL"] >>
        /\ 2 * Abs(100 * results[i].exit.exit_price[1]
                   - results[i].spec[1].stopPrice * results[i].exit.exit_price[2])
              <= results[i].exit.exit_price[2]
        /\ results[i].call # None =>
              /\ results[i].call[1].spec = results[i].spec[1]
              /\ results[i].action = "replace" =>
                    /\ results[i].call[1].kind = "replace_order"
                    /\ results[i].call[1].order_id = results[i].target
              /\ results[i].action = "place" =>
                    /\ results[i].call[1].kind = "place_order"
                    /\ results[i].call[1].order_id = None

\* C5 witness: a replace_order call for an order whose remaining quantity is
\* not the position quantity, at a stop price that is not a whole number of
\* cents before formatting
C5_Witness ==
    \E i \in AtOrderStep :
        /\ results[i].call # None
        /\ results[i].call[1].kind = "replace_order"
        /\ (100 * results[i].exit.exit_price[1]) % results[i].exit.exit_price[2] # 0
        /\ \E j \in 1..Len(open_orders) :
              /\ <<open_orders[j].orderId>> = results[i].target
              /\ open_orders[j].remainingQuantity # <<results[i].spec[1].quantity>>

-----------------------------------------------------------------------------
(* Properties of process_symbol, run() and main(), checked under Spec.     *)

\* the results of the calls of process_symbol that returned
Processed == {i \in 1..Len(results) : ~results[i].raised}

HasLog(i, level, what) ==
    \E k \in 1..Len(results[i].logs) : results[i].logs[k] = <<level, what>>

\* C6: a symbol whose net position quantity (long minus short, 0 without a
\* matching position) is not positive is skipped: process_symbol fetches no
\* price history, computes no indicator, makes no place or replace call, and
\* returns success.
C6_NoPositionSkipped ==
    \A i \in Processed :
        HeldQuantity(results[i].symbol) <= 0 =>
            /\ results[i].stage = "no_position"
            /\ results[i].ret
            /\ ~results[i].history_fetched
            /\ ~results[i].indicators_called
            /\ results[i].exit = ExitPending
            /\ results[i].action = "none"
            /\ results[i].call = None
            /\ \A k \in 1..Len(calls) : calls[k].spec.symbol # results[i].symbol
            /\ \A k \in 1..Len(history_calls) : history_calls[k] # results[i].symbol

\* C6 witness: a run that succeeded over two symbols, one with a net short
\* position and one without a position
C6_Witness ==
    /\ run_result = <<TRUE>>
    /\ Len(results) = 2
    /\ \E i \in Processed : HeldQuantity(results[i].symbol) < 0
    /\ \E i \in Processed :
          /\ HeldQuantity(results[i].symbol) = 0
          /\ \A j \in 1..Len(positions) :
                positions[j].symbol # results[i].symbol

\* C7: in a dry run no place_order or replace_order call is ever made, and
\* every symbol that reaches the order step has its action computed and
\* logged and is reported as a success.
C7_DryRunNeverCalls ==
    (results # <<>> /\ config.dry_run) =>
        /\ calls = <<>>
        /\ \A i \in AtOrderStep :
              /\ results[i].ret
              /\ results[i].call = None
              /\ results[i].action \in {"place", "replace"}
              /\ results[i].spec # None
              /\ HasLog(i, "info", "dry_run")

\* C7 witness: a dry run whose symbol reached the order step with an
\* existing SELL order to replace, after which run() returned success
C7_Witness ==
    /\ run_result = <<TRUE>>
    /\ config.dry_run
    /\ \E i \in AtOrderStep :
          /\ results[i].action = "replace"
          /\ results[i].target # None

\* C8 (as claimed): when run() returns, every configured symbol has been
\* processed exactly once, in the configured order, whatever happened while
\* another symbol was processed.
C8_EverySymbolProcessed ==
    run_result # None =>
        /\ Len(results) = Len(config.tickers)
        /\ \A i \in 1..Len(results) :
              /\ results[i].symbol = config.tickers[i]
              /\ ~results[i].raised

\* C9: run() returns success exactly when the number of symbols whose
\* processing returned success is the number of configured symbols (so it
\* does for no symbols at all), and main() exits with a non-zero status
\* exactly when run() did not return success.
C9_SuccessIffAll ==
    /\ run_result # None =>
          (run_result[1] <=>
              Cardinality({i \in Processed : results[i].ret})
                  = Len(config.tickers))
    /\ pc = "exited" =>
          /\ exit_code \in {<<0>>, <<1>>}
          /\ (exit_code = <<0>>) <=> (run_result = <<TRUE>>)

\* C9 witness: main() exited with status 1 after a run over two symbols of
\* which exactly one succeeded, no call of process_symbol having raised
C9_Witness ==
    /\ pc = "exited"
    /\ exit_code = <<1>>
    /\ run_result = <<FALSE>>
    /\ Len(config.tickers) = 2
    /\ Processed = {1, 2}
    /\ Cardinality({i \in Processed : results[i].ret}) = 1

\* C10 (as claimed): a held symbol whose price history has candles, but fewer
\* than the required minimum, is skipped and not failed: no indicator is
\* computed, no order is submitted, a warning is logged, the run goes on, and
\* process_symbol does not return failure for it.
C10_TooFewCandlesSkipped ==
    \A i \in Processed :
        (/\ results[i].history_fetched
         /\ results[i].candles # None
         /\ results[i].candles # <<0>>
         /\ results[i].candles[1] < min_required(config)) =>
            /\ ~results[i].indicators_called
            /\ results[i].call = None
            /\ HasLog(i, "warning", "insufficient_data")
            /\ results[i].ret

\* C11 (as claimed): whenever a broker fetch fails (the positions, the open
\* orders, or a symbol's price history), every symbol whose decision depended
\* on that fetch is marked failed, and a run over one symbol or more that
\* lost a snapshot fetch does not return success.
C11_FetchFailureMarksFailed ==
    /\ \A i \in Processed :
          /\ "positions" \in fetch_failed => ~results[i].ret
          /\ ("orders" \in fetch_failed /\ results[i].stage = "order") =>
                ~results[i].ret
          /\ (results[i].history_fetched /\ results[i].candles = None) =>
                ~results[i].ret
    /\ (run_result # None /\ fetch_failed # {} /\ results # <<>>) =>
          run_result = <<FALSE>>

\* C12: outside a dry run, a symbol that reaches the order step makes one
\* broker call and is a success exactly when that call returned a status
\* below 400; a status of 400 or more, or an exception of the call, makes it
\* a failure, and the loop goes on to the next symbol.
C12_SuccessIffBelow400 ==
    (results # <<>> /\ ~config.dry_run) =>
        \A i \in AtOrderStep :
            /\ results[i].call # None
            /\ results[i].ret <=>
                  (/\ ~results[i].call[1].response.raises
                   /\ results[i].call[1].response.code < 400)
            /\ ~results[i].raised
            /\ idx >= i
            /\ (run_result # None /\ Processed = 1..Len(results)) =>
                  Len(results) = Len(config.tickers)

\* C12 witness: a run of two symbols that both reached the order step, the
\* first refused with status 400 and the second accepted
C12_Witness ==
    /\ Len(results) = 2
    /\ AtOrderStep = {1, 2}
    /\ ~config.dry_run
    /\ results[1].call[1].response = [raises |-> FALSE, code |-> 400]
    /\ ~results[1].ret
    /\ results[2].ret
    /\ run_result = <<FALSE>>

-----------------------------------------------------------------------------
(* Properties of get_open_orders, checked under SpecOpen.                  *)

\* the places in the broker's list of the orders with a remainingQuantity
\* above 0
WithRemaining ==
    {j \in 1..Len(broker_orders) :
        /\ broker_orders[j].remainingQuantity # None
        /\ broker_orders[j].remainingQuantity[1] > 0}

\* C13: when the orders fetch succeeds, the open-orders snapshot is exactly
\* the broker's orders with a remainingQuantity above 0, in the broker's
\* order, whatever their status; a replacement only ever targets such an
\* order, and the first of them with a SELL leg on the symbol is the target
\* whatever its status.
C13_OpenIffRemaining ==
    ((pc = "loop" \/ run_result # None) /\ "orders" \notin fetch_failed) =>
        /\ Len(open_orders) = Cardinality(WithRemaining)
        /\ \A j \in WithRemaining :
              open_orders[Cardinality({h \in WithRemaining : h <= j})]
                  = broker_orders[j]
        /\ \A i \in AtOrderStep :
              /\ results[i].action = "replace" =>
                    \E j \in WithRemaining :
                        results[i].target = <<broker_orders[j].orderId>>
              /\ \A j \in WithRemaining :
                    (/\ \E k \in 1..Len(broker_orders[j].orderLegCollection) :
                           broker_orders[j].orderLegCollection[k]
                               = Leg(results[i].symbol, "SELL")
                     /\ \A h \in WithRemaining : j <= h) =>
                        /\ results[i].action = "replace"
                        /\ results[i].target = <<broker_orders[j].orderId>>

\* C13 witness: a replacement of the third order of the broker's list, whose
\* status is FILLED, the first order having a remainingQuantity of 0 and the
\* second none at all
C13_Witness ==
    /\ Len(broker_orders) = 3
    /\ broker_orders[1].remainingQuantity = <<0>>
    /\ broker_orders[2].remainingQuantity = None
    /\ broker_orders[3].status = "FILLED"
    /\ "orders" \notin fetch_failed
    /\ \E i \in AtOrderStep :
          /\ results[i].action = "replace"
          /\ results[i].target = <<broker_orders[3].orderId>>

-----------------------------------------------------------------------------
(* Properties of the loop of run() across symbols, checked under Spec.     *)

\* what process_symbol can do for a symbol against the snapshots of this
\* run, over every price history and every answer of the broker
DecisionsAlone(symbol) ==
    {process_symbol(config, symbol, positions, open_orders, hist, resp) :
        hist \in HistoryResponses, resp \in BrokerResponses}

\* C14 (as claimed): the decision for a symbol does not depend on the other
\* symbols of the list or on their order: when run() returns, every
\* configured symbol that process_symbol can handle against the snapshots has
\* been handled, with a decision process_symbol takes for it on its own.
C14_DecisionsIndependent ==
    run_result # None =>
        \A k \in 1..Len(config.tickers) :
            (\A o \in DecisionsAlone(config.tickers[k]) : ~o.raised) =>
                /\ k <= Len(results)
                /\ results[k] \in DecisionsAlone(config.tickers[k])

\* the environment lacks a required credential, or sets a period that is
\* not positive
InvalidConfiguration ==
    \/ env.missing # {}
    \/ \E p \in {env.cfg.sma_period, env.cfg.ema_period,
                 env.cfg.breakeven_ema_period, env.cfg.atr_period,
                 env.cfg.chandelier_period} : p <= 0

\* C15: with a required credential missing or a period that is not positive,
\* main() never gets a TradingConfig and never starts run(): it exits with a
\* non-zero status, and no positions, orders or price-history fetch and no
\* order submission takes place.
C15_ValidationFatal ==
    InvalidConfiguration =>
        /\ pc \in {"main", "exited"}
        /\ config = None
        /\ pc = "exited" => exit_code = <<1>>
        /\ run_result = None
        /\ positions = <<>>
        /\ open_orders = <<>>
        /\ fetch_failed = {}
        /\ results = <<>>
        /\ history_calls = <<>>
        /\ calls = <<>>

\* C15 witness: main() has exited with status 1 on an environment that has
\* every credential and an ATR period of 0, while the account holds a
\* position and an open order
C15_Witness ==
    /\ pc = "exited"
    /\ exit_code = <<1>>
    /\ env.missing = {}
    /\ env.cfg.atr_period = 0
    /\ broker_positions # <<>>
    /\ broker_orders # <<>>

-----------------------------------------------------------------------------
(* Properties of TechnicalIndicators, checked under SpecIndicators.        *)

\* the indicator `fn` has been called
Called(fn) == ind_result.fn = fn

\* the call raised the insufficient-data error and returned no value
InsufficientData ==
    /\ ~ind_result.res.ok
    /\ ind_result.res.err = "ValueError"
    /\ ind_result.res.val = None

\* C16: called on a series shorter than its lookback, each indicator raises
\* the insufficient-data error, returns no value and leaves the lists it was
\* given as they were: the moving averages for fewer closes than the period,
\* average_true_range for fewer closes than the period plus one,
\* chandelier_exit for fewer highs than the period.
C16_ShortSeriesRaises ==
    /\ ind_series = ind_input
    /\ (Called("sma") /\ Len(ind_input.closes) < ind_period) => InsufficientData
    /\ (Called("ema") /\ Len(ind_input.closes) < ind_period) => InsufficientData
    /\ (Called("atr") /\ Len(ind_input.closes) < ind_period + 1) => InsufficientData
    /\ (Called("chandelier") /\ Len(ind_input.highs) < ind_period) =>
          InsufficientData

\* C16 witness: average_true_range raised on a series of exactly `period`
\* closes, one short of its lookback
C16_Witness ==
    /\ Called("atr")
    /\ Len(ind_input.closes) = ind_period
    /\ InsufficientData
    /\ ind_series = ind_input

\* b to the power e, with Pow(0, 0) = 1
Pow(b, e) ==
    LET p[i \in 0..e] == IF i = 0 THEN 1 ELSE b * p[i - 1]
    IN  p[e]

\* the seed closes[-period] updated by ema = a * price + (1 - a) * ema with
\* a = 2 / (period + 1) over the period - 1 closes after it, written out:
\* ((period-1)^(period-1) * x0
\*    + sum over k of 2 * (period-1)^(period-1-k) * (period+1)^(k-1) * xk)
\* / (period+1)^(period-1), xk being the k-th close after the seed x0
EmaOfLast(closes, period) ==
    LET x(k) == closes[Len(closes) - period + 1 + k]
        acc[k \in 0..(period - 1)] ==
            IF k = 0 THEN Pow(period - 1, period - 1) * x(0)
            ELSE acc[k - 1]
                 + 2 * Pow(period - 1, period - 1 - k) * Pow(period + 1, k - 1) * x(k)
    IN  Norm(acc[period - 1], Pow(period + 1, period - 1))

\* C17 (as claimed): for every period >= 1 and at least `period` closes,
\* exponential_moving_average seeds with closes[-period] and applies the
\* update exactly period - 1 times, over the last period - 1 closes in
\* order, so that its value is that of the last `period` closes alone; on
\* the closes 10..20 with period 5 it is 1490/81.
C17_EmaUpdates ==
    (Called("ema") /\ ind_period >= 1 /\ Len(ind_input.closes) >= ind_period) =>
        /\ ind_result.res.ok
        /\ Len(ema_window(ind_input.closes, ind_period)) = ind_period - 1
        /\ ema_window(ind_input.closes, ind_period)
              = SubSeq(ind_input.closes, Len(ind_input.closes) - ind_period + 2,
                       Len(ind_input.closes))
        /\ ind_result.res.val = EmaOfLast(ind_input.closes, ind_period)
        /\ (ind_input.closes = [i \in 1..11 |-> 9 + i] /\ ind_period = 5) =>
              ind_result.res.val = <<1490, 81>>

\* the greatest of a non-empty finite set of integers
Greatest(S) == CHOOSE m \in S : \A x \in S : x <= m

\* the true range of bar i >= 2 of the series
TrueRangeAt(md, i) ==
    Greatest({md.highs[i] - md.lows[i],
              Abs(md.highs[i] - md.closes[i - 1]),
              Abs(md.lows[i] - md.closes[i - 1])})

\* the sum of the true ranges of the bars from..Len(closes)
TrueRangeSum(md, from) ==
    LET sum[i \in (from - 1)..Len(md.closes)] ==
            IF i = from - 1 THEN 0 ELSE sum[i - 1] + TrueRangeAt(md, i)
    IN  sum[Len(md.closes)]

\* the series made of the last k bars of md
LastBars(md, k) ==
    [symbol |-> md.symbol,
     highs  |-> SubSeq(md.highs, Len(md.highs) - k + 1, Len(md.highs)),
     lows   |-> SubSeq(md.lows, Len(md.lows) - k + 1, Len(md.lows)),
     closes |-> SubSeq(md.closes, Len(md.closes) - k + 1, Len(md.closes))]

\* C18: on a series of at least period + 1 closes, average_true_range returns
\* the mean of the last `period` true ranges, the true range of a bar being
\* the greatest of high - low, |high - previous close| and
\* |low - previous close|; the bars before the last period + 1 do not count.
C18_AtrMeanOfLast ==
    (Called("atr") /\ Len(ind_input.closes) >= ind_period + 1) =>
        /\ ind_result.res.ok
        /\ ind_result.res.val =
              Norm(TrueRangeSum(ind_input, Len(ind_input.closes) - ind_period + 1),
                   ind_period)
        /\ ind_result.res =
              average_true_range(LastBars(ind_input, ind_period + 1), ind_period)

\* C18 witness: an average true range returned on a series longer than
\* period + 1 whose older bars would change the mean if they counted
C18_Witness ==
    /\ Called("atr")
    /\ ind_result.res.ok
    /\ Len(ind_input.closes) > ind_period + 1
    /\ ind_result.res.val # Norm(TrueRangeSum(ind_input, 2), ind_period)
    /\ ind_result.res.val # Norm(TrueRangeSum(ind_input, 2), Len(ind_input.closes) - 1)

\* the highest of the last k highs of the series
HighestHigh(md, k) ==
    Greatest({md.highs[i] : i \in (Len(md.highs) - k + 1)..Len(md.highs)})

\* highest high of the last `period` bars less multiplier times the mean of
\* the last k true ranges
HighLessAtr(md, period, multiplier, k) ==
    RSub(R(HighestHigh(md, period)),
         RMul(multiplier, Norm(TrueRangeSum(md, Len(md.closes) - k + 1), k)))

\* C19: whenever chandelier_exit returns, its value is the highest of the
\* last `period` highs less multiplier times the average true range of
\* period 10, whatever `period` is; it returns exactly when the series has
\* `period` highs and the 11 closes that average needs.
C19_ChandelierAtrTen ==
    Called("chandelier") =>
        /\ ind_result.res.ok <=>
              (Len(ind_input.highs) >= ind_period /\ Len(ind_input.closes) >= 11)
        /\ ind_result.res.ok =>
              ind_result.res.val
                  = HighLessAtr(ind_input, ind_period, ind_multiplier, 10)

\* C19 witness: chandelier_exit returned for a period other than 10, with a
\* value that the average true range of that period would not give
C19_Witness ==
    /\ Called("chandelier")
    /\ ind_result.res.ok
    /\ ind_period # 10
    /\ Len(ind_input.closes) >= ind_period + 1
    /\ ind_result.res.val
          # HighLessAtr(ind_input, ind_period, ind_multiplier, ind_period)

\* highs, lows and closes each rise at every bar
Rising(md) ==
    \A i \in 2..Len(md.closes) :
        /\ md.closes[i - 1] < md.closes[i]
        /\ md.highs[i - 1] < md.highs[i]
        /\ md.lows[i - 1] < md.lows[i]

\* every bar closes between its low and its high
ClosesWithinBars(md) ==
    \A i \in 1..Len(md.closes) :
        md.lows[i] <= md.closes[i] /\ md.closes[i] <= md.highs[i]

\* chandelier_exit was called with period 22 and multiplier 3.0 on a rising
\* series of at least 22 bars
DefaultChandelierOnRising ==
    /\ Called("chandelier")
    /\ ind_period = 22
    /\ ind_multiplier = R(3)
    /\ Len(ind_input.closes) >= 22
    /\ Rising(ind_input)

\* C20 (as amended): on a rising series of at least 22 bars whose every bar
\* closes between its low and its high, chandelier_exit with period 22 and
\* multiplier 3.0 is strictly below the highest high of the last 22 bars.
C20_BelowHighWithinBars ==
    (DefaultChandelierOnRising /\ ClosesWithinBars(ind_input)) =>
        /\ ind_result.res.ok
        /\ RLt(ind_result.res.val, R(HighestHigh(ind_input, 22)))

\* C20 witness: such a call on 23 bars of uneven steps returned a value below
\* the highest high
C20_Witness ==
    /\ DefaultChandelierOnRising
    /\ ClosesWithinBars(ind_input)
    /\ Len(ind_input.closes) = 23
    /\ \E i \in 3..23 :
          ind_input.closes[i] - ind_input.closes[i - 1]
              # ind_input.closes[i - 1] - ind_input.closes[i - 2]
    /\ ind_result.res.ok
    /\ RLt(ind_result.res.val, R(HighestHigh(ind_input, 22)))

\* C20 (as claimed): on every rising series of at least 22 bars that
\* MarketData accepts, chandelier_exit with period 22 and multiplier 3.0 is
\* strictly below the highest high of the last 22 bars.
C20_BelowHighAnySeries ==
    DefaultChandelierOnRising =>
        /\ ind_result.res.ok
        /\ RLt(ind_result.res.val, R(HighestHigh(ind_input, 22)))

-----------------------------------------------------------------------------
(* Properties of the orders a run leaves at the broker, checked under Spec. *)

\* the places in the broker's list of the open orders (remainingQuantity
\* above 0) with a SELL leg on the symbol, as the account held them when the
\* run started
AccountSellOrdersOn(symbol) ==
    {j \in 1..Len(broker_orders) :
        /\ broker_orders[j].wellformed
        /\ is_open(broker_orders[j])
        /\ has_sell_leg(symbol, broker_orders[j])}

\* the place_order calls before the k-th broker call that the broker accepted
\* for the symbol: each left a new open SELL order on it in the account
PlacedBefore(symbol, k) ==
    {h \in 1..(k - 1) :
        /\ calls[h].kind = "place_order"
        /\ calls[h].spec.symbol = symbol
        /\ ~calls[h].response.raises
        /\ calls[h].response.code < 400}

\* C21 (as claimed): a place_order call is made for a symbol only when the
\* account holds no open SELL order on the symbol at that moment, neither one
\* it held when the run started nor one the run has placed since; this for
\* any ticker list and also when the open-orders fetch failed.
C21_PlaceOnlyWithoutOpenSell ==
    \A k \in 1..Len(calls) :
        calls[k].kind = "place_order" =>
            /\ AccountSellOrdersOn(calls[k].spec.symbol) = {}
            /\ PlacedBefore(calls[k].spec.symbol, k) = {}

-----------------------------------------------------------------------------
(* Properties of the decision step of process_symbol, checked under Spec.  *)

\* the results of the symbols for which get_market_data returned a series
\* and calculate_exit_price was called
Decided == {i \in 1..Len(results) : results[i].indicators_called}

\* C22 (as claimed): for every accepted configuration, whenever
\* get_market_data returns a series (at least max(sma_period, ema_period,
\* atr_period + 1, chandelier_period) candles), calculate_exit_price
\* completes without the insufficient-data error of an indicator.
C22_MinimumCandlesSuffice ==
    \A i \in Decided :
        /\ results[i].candles # None
        /\ results[i].candles[1] >= min_required(config)
        /\ results[i].exit.err # "ValueError"

\* C23 (as claimed): the stop price of the order of a held symbol, as
\* computed and as submitted to the cent, is never above the current price,
\* the latest close the P&L is taken at, whatever the strategy.
C23_StopNotAboveMarket ==
    \A i \in AtOrderStep :
        /\ RLe(results[i].exit.exit_price, results[i].current_price)
        /\ RLe(Norm(results[i].spec[1].stopPrice, 100), results[i].current_price)

-----------------------------------------------------------------------------
(* Properties of the export runs, checked under SpecExport.                *)

\* the run wrote a CSV file with at least one execution row
WroteRows(r) == r.export.written # None /\ r.export.written[1] # <<>>

\* C24 (as claimed): in every export run, a file is uploaded or the job
\* triggered only if the export of that same run wrote at least one
\* execution row, and what is uploaded is what that run wrote; a run that
\* retrieved no orders, or no filled orders, uploads nothing and triggers no
\* job.
C24_UploadOnlyOwnRows ==
    \A i \in 1..Len(export_runs) :
        /\ (export_runs[i].upload.uploaded # None \/ export_runs[i].upload.triggered)
              => WroteRows(export_runs[i])
        /\ export_runs[i].upload.uploaded # None =>
              export_runs[i].upload.uploaded = export_runs[i].export.written
        /\ (export_runs[i].export.retrieved = 0 \/ export_runs[i].export.filled = 0)
              => /\ export_runs[i].upload.uploaded = None
                 /\ ~export_runs[i].upload.triggered

\* the order was entered inside the date range of the order query of run k
InWindow(o, k) ==
    /\ export_runs[k].export.from_date <= o.enteredTime
    /\ o.enteredTime <= export_runs[k].export.to_date

\* C25 (as claimed): the from_date of a run is never later than the to_date
\* of the order query of the run before it, and every order entered between
\* the from_date of the first run and the to_date of the last one is inside
\* the date range of some run.
C25_NoGapBetweenWindows ==
    /\ \A i \in 2..Len(export_runs) :
          export_runs[i].export.from_date <= export_runs[i - 1].export.to_date
    /\ export_runs # <<>> =>
          \A j \in 1..Len(account_orders) :
              (/\ export_runs[1].export.from_date <= account_orders[j].enteredTime
               /\ account_orders[j].enteredTime
                     <= export_runs[Len(export_runs)].export.to_date)
                  => \E k \in 1..Len(export_runs) : InWindow(account_orders[j], k)

\* C26 (as claimed): a run whose order fetch failed (a status other than 200,
\* or an exception) or whose CSV write failed leaves last_execution.json as
\* it found it.
C26_SaveOnlyOnSuccess ==
    \A i \in 1..Len(export_runs) :
        (export_runs[i].export.fetch # "ok" \/ ~export_runs[i].export.ret) =>
            export_runs[i].export.last_execution = export_runs[i].state_before

====
